---------------------------- MODULE Spec2Model ----------------------------
(***************************************************************************)
(* Soledad client: bootstrap of the storage secret, its local secrets      *)
(* file, the shared recovery database and the local SQLCipher database.    *)
(* Several devices (processes constructing a Soledad instance) of one or   *)
(* more users run against one shared recovery database; every device has   *)
(* its own disk, which survives the process.                               *)
(***************************************************************************)
EXTENDS Integers, Sequences, FiniteSets, TLC

(***************************************************************************)
(* Bounds of the model.                                                    *)
(***************************************************************************)
MaxMasters == 2
PlainSpace == 64
SaltSpace == 2
IvSpace == 2

Devices == {"d1", "d2"}
\* The passphrases a process may be started with, and the number each stands
\* for in the key derivation.
Passphrases == {"hunter2", "wrong"}
PassphraseCode(p) == IF p = "hunter2" THEN 1 ELSE 2
\* The secrets os.urandom(GENERATED_SECRET_LENGTH) may draw.
Masters == 1..MaxMasters
\* The values of os.urandom(SALT_LENGTH) and of os.urandom(8), and the ones
\* the runs of _gen_secret draw.
SaltValues == 0..(SaltSpace - 1)
IvValues == 0..(IvSpace - 1)
Salts == {0}
IVs == {0}
Uuids == {"u-1"}

None == << >>
NoUuid == "absent"
NoUrl == "None"
NoPassphrase == "None"
ServerUrls == {"", "https://server/"}

(***************************************************************************)
(* Primitives: hashlib.sha256, scrypt.hash, binascii, AES-256-CTR.         *)
(***************************************************************************)
Sha256Hex(x) == <<"sha256", x>>

SECRETS_DOC_ID_HASH_PREFIX == "uuid-"

B2aBase64(x) == <<"b64", x>>

A2bBase64(s) == s[2]

B2aHex(x) == <<"hex", x>>

\* scrypt.hash(password, salt, buflen=32): one key per (password, salt).
Scrypt(password, salt) == PassphraseCode(password) * SaltSpace + salt

\* Counter.new(64, prefix=iv) with AES.new(key, MODE_CTR): the key stream.
Keystream(key, iv) == key * IvSpace + iv

\* encrypt_sym with a given iv: (b2a_base64(iv), cipher.encrypt(data)).
EncryptSym(data, key, iv) ==
    <<B2aBase64(iv), (data + Keystream(key, iv)) % PlainSpace>>

\* A decryption that starts the counter at zero whatever the iv.
DecryptSymNoIv(data, key, iv) ==
    (data - Keystream(key, 0)) % PlainSpace

\* decrypt_sym: no integrity verification, any key yields some plaintext.
DecryptSym(data, key, iv) ==
    (data - Keystream(key, A2bBase64(iv))) % PlainSpace

EmptyMap == << >>

\* json.dumps / json.loads of the storage_secrets dictionary.
JsonDumps(map) == {<<k, map[k]>> : k \in DOMAIN map}

JsonLoads(text) ==
    [k \in {p[1] : p \in text} |-> (CHOOSE p \in text : p[1] = k)[2]]

VARIABLES
    pc,          \* position of each device's process in __init__/_bootstrap,
                 \* or the exception that left __init__ and where it rose
    uuid,        \* self._uuid
    passphrase,  \* self._passphrase
    server_url,  \* self._server_url
    secrets,     \* self._secrets
    secret_id,   \* self._secret_id
    creds,       \* self._creds['token']['uuid']
    doc,         \* the local variable doc of _bootstrap and of the push
    db,          \* self._db
    file,        \* the secrets file on the device's disk
    shared,      \* the shared recovery database, by document id
    new_id,      \* the secret id _gen_secret is about to return
    generated,   \* the runs of _gen_secret so far: the secret drawn, the
                 \* user uuid, and whether the process had a shared-db handle
    run,         \* what the current run of _bootstrap has met and done
    call,        \* the last call of the crypto functions and its outcome
    signals,     \* the signals each device's process has emitted so far
    dirs         \* whether the work directories exist on the device's disk

vars == <<pc, uuid, passphrase, server_url, secrets, secret_id, creds, doc,
          db, file, shared, new_id, generated, run, call, signals, dirs>>

NoFile == [state |-> "absent", data |-> {}]
Truncated == [state |-> "truncated", data |-> {}]
Written(map) == [state |-> "written", data |-> JsonDumps(map)]

\* A SoledadDocument: doc_id and content (storage_secrets, optional uuid).
NoDoc ==
    [found |-> FALSE, doc_id |-> None, storage_secrets |-> EmptyMap,
     uuid |-> NoUuid]

Doc(id, map, u) ==
    [found |-> TRUE, doc_id |-> id, storage_secrets |-> map, uuid |-> u]

Closed == [open |-> FALSE, key |-> None]

\* The history of a run of _bootstrap: whether the secrets file existed when
\* it began, what _has_secret answered in stage 1, what stage 1 got from the
\* shared db and under which document id it asked, the number of put_doc
\* calls that went through, and the stages of _bootstrap in the order in
\* which the run went through them.
NoRun ==
    [empty_disk |-> FALSE, local |-> "", fetched |-> "",
     fetched_from |-> None, puts |-> 0, stages |-> << >>]

NewRun(f) ==
    [empty_disk |-> f.state = "absent", local |-> "", fetched |-> "",
     fetched_from |-> None, puts |-> 0, stages |-> << >>]

\* _uuid_hash
UuidHash(u) == Sha256Hex(<<SECRETS_DOC_ID_HASH_PREFIX, u>>)

\* The uuid a recovery document may carry besides the ones of Uuids.
DocUuids == {"u-2"}

DocIds == {UuidHash(u) : u \in Uuids \cup DocUuids}

\* No call of the crypto functions.
NoCall == [op |-> "", args |-> << >>, done |-> FALSE, out |-> << >>]

\* No process has run yet on any device: empty disks.
NoInstances ==
    /\ pc = [d \in Devices |-> "none"]
    /\ uuid = [d \in Devices |-> NoUuid]
    /\ passphrase = [d \in Devices |-> NoPassphrase]
    /\ server_url = [d \in Devices |-> NoUrl]
    /\ secrets = [d \in Devices |-> EmptyMap]
    /\ secret_id = [d \in Devices |-> None]
    /\ creds = [d \in Devices |-> NoUuid]
    /\ doc = [d \in Devices |-> NoDoc]
    /\ db = [d \in Devices |-> Closed]
    /\ file = [d \in Devices |-> NoFile]
    /\ new_id = [d \in Devices |-> None]
    /\ generated = {}
    /\ run = [d \in Devices |-> NoRun]
    /\ signals = [d \in Devices |-> << >>]
    /\ dirs = [d \in Devices |-> FALSE]

\* No process has run yet: empty disks, an empty shared database.
NoProcess ==
    /\ NoInstances
    /\ shared = [i \in DocIds |-> NoDoc]

Init ==
    /\ NoProcess
    /\ call = NoCall

(***************************************************************************)
(* Management of the secret for symmetric encryption.                      *)
(***************************************************************************)
GENERATED_SECRET_LENGTH == 1024
IV_SEPARATOR == ":"

\* The wrapped secret _gen_secret stores under sha256(secret).hexdigest().
WrappedSecret(secret, p, salt, iv) ==
    LET key == Scrypt(p, salt)
        enc == EncryptSym(secret, key, iv)
    IN  [kdf |-> "scrypt",
         kdf_salt |-> B2aBase64(salt),
         kdf_length |-> 32,
         cipher |-> "aes256",
         length |-> GENERATED_SECRET_LENGTH,
         secret |-> <<enc[1], IV_SEPARATOR, B2aBase64(enc[2])>>]

\* The outcome of a call: the exception raised, or the value returned.
Raise(e) == [raised |-> e, value |-> 0]
Return(v) == [raised |-> "", value |-> v]

\* An unwrapping that derives the key without the stored salt.
UnwrapNoSalt(rec, p) ==
    LET key == Scrypt(p, 0)
        iv == rec.secret[1]
        ciphertext == A2bBase64(rec.secret[3])
    IN  DecryptSym(ciphertext, key, iv)

\* _get_storage_secret on the record of the active id: the key from the
\* passphrase and the stored salt, the split at the separator, decrypt_sym.
Unwrap(rec, p) ==
    LET key == Scrypt(p, A2bBase64(rec.kdf_salt))
        iv == rec.secret[1]
        ciphertext == A2bBase64(rec.secret[3])
    IN  DecryptSym(ciphertext, key, iv)

\* A lookup that yields an empty secret for an id that is not in the map.
GetStorageSecretNoLookupError(map, sid, p) ==
    IF sid = None \/ sid \notin DOMAIN map
    THEN Return(0)
    ELSE Return(Unwrap(map[sid], p))

\* _get_storage_secret: self._secrets[self._secret_id] raises for an id that
\* is None or not in the map; nothing checks the decrypted result.
GetStorageSecret(map, sid, p) ==
    IF sid = None \/ sid \notin DOMAIN map
    THEN Raise("KeyError")
    ELSE Return(Unwrap(map[sid], p))

\* _load_secrets: the outcomes (the first key of a dict is any of its keys).
LoadSecrets(f, map, sid) ==
    IF f.state = "absent"
    THEN {[raised |-> "IOError", secrets |-> map, secret_id |-> sid]}
    ELSE IF f.state = "truncated"
    THEN {[raised |-> "ValueError", secrets |-> map, secret_id |-> sid]}
    ELSE LET content == JsonLoads(f.data)
         IN  IF sid # None
             THEN {[raised |-> "", secrets |-> content, secret_id |-> sid]}
             ELSE IF DOMAIN content = {}
             THEN {[raised |-> "IndexError", secrets |-> content,
                    secret_id |-> sid]}
             ELSE {[raised |-> "", secrets |-> content, secret_id |-> k] :
                     k \in DOMAIN content}

\* _has_secret: result "true", "false", or "raise" when _load_secrets raises
\* anything but IOError (raised is what _load_secrets raised).
HasSecret(f, map, sid, p) ==
    LET loaded ==
            IF sid = None \/ sid \notin DOMAIN map
            THEN LoadSecrets(f, map, sid)
            ELSE {[raised |-> "", secrets |-> map, secret_id |-> sid]}
    IN  {[result |->
              IF o.raised \notin {"", "IOError"} THEN "raise"
              ELSE IF GetStorageSecret(o.secrets, o.secret_id, p).raised # ""
              THEN "false" ELSE "true",
          raised |-> o.raised,
          secrets |-> o.secrets,
          secret_id |-> o.secret_id] : o \in loaded}

LOCAL_STORAGE_SECRET_LENGTH == 512
REMOTE_STORAGE_SECRET_LENGTH ==
    GENERATED_SECRET_LENGTH - LOCAL_STORAGE_SECRET_LENGTH
SALT_LENGTH == 64

\* The slice secret[from:to] of a storage secret.
Slice(secret, from, to) == <<"bytes", secret, from, to>>

\* A key whose salt is taken from the start of the storage secret.
LocalDbKeySaltFromStart(secret) ==
    LET salt_start == 0
        salt_end == salt_start + SALT_LENGTH
        pwd_start == REMOTE_STORAGE_SECRET_LENGTH + SALT_LENGTH
        pwd_end == REMOTE_STORAGE_SECRET_LENGTH + LOCAL_STORAGE_SECRET_LENGTH
    IN  B2aHex(<<"scrypt", Slice(secret, pwd_start, pwd_end),
                 Slice(secret, salt_start, salt_end)>>)

\* The key _init_db hands to sqlcipher_open: hex of scrypt.hash(password,
\* salt, buflen=32), password and salt being slices of the storage secret.
LocalDbKey(secret) ==
    LET salt_start == REMOTE_STORAGE_SECRET_LENGTH
        salt_end == salt_start + SALT_LENGTH
        pwd_start == salt_end
        pwd_end == salt_start + LOCAL_STORAGE_SECRET_LENGTH
    IN  B2aHex(<<"scrypt", Slice(secret, pwd_start, pwd_end),
                 Slice(secret, salt_start, salt_end)>>)

\* An export that carries the uuid whatever include_uuid says.
ExportRecoveryDocumentWithUuid(map, u, include_uuid) ==
    [storage_secrets |-> map, uuid |-> u]

\* export_recovery_document
ExportRecoveryDocument(map, u, include_uuid) ==
    [storage_secrets |-> map, uuid |-> IF include_uuid THEN u ELSE NoUuid]

\* An import that takes the map of the document for the map of the instance.
MergeSecretsImportedOnly(map, imported) == imported

\* A merge in which the imported record replaces the known one.
MergeSecretsOverwrite(map, imported) ==
    [k \in DOMAIN map \cup DOMAIN imported |->
        IF k \in DOMAIN imported THEN imported[k] ELSE map[k]]

\* import_recovery_document, the loop: new ids join, known ids are kept.
MergeSecrets(map, imported) ==
    [k \in DOMAIN map \cup DOMAIN imported |->
        IF k \in DOMAIN map THEN map[k] ELSE imported[k]]

(***************************************************************************)
(* Construction and the bootstrap sequence.                                *)
(***************************************************************************)
SecretIds == {Sha256Hex(m) : m \in Masters}

\* No instance: the fields of a process that has ended, or whose __init__
\* raised.
NoInstance(d, at) ==
    /\ pc' = [pc EXCEPT ![d] = at]
    /\ uuid' = [uuid EXCEPT ![d] = NoUuid]
    /\ passphrase' = [passphrase EXCEPT ![d] = NoPassphrase]
    /\ server_url' = [server_url EXCEPT ![d] = NoUrl]
    /\ secrets' = [secrets EXCEPT ![d] = EmptyMap]
    /\ secret_id' = [secret_id EXCEPT ![d] = None]
    /\ creds' = [creds EXCEPT ![d] = NoUuid]
    /\ doc' = [doc EXCEPT ![d] = NoDoc]
    /\ db' = [db EXCEPT ![d] = Closed]
    /\ new_id' = [new_id EXCEPT ![d] = None]
    /\ run' = [run EXCEPT ![d] = NoRun]

\* The exceptions that leave __init__, by the place where they rise.
ConfigError == "AssertionError in _init_config"
LoadError(e) ==
    IF e = "ValueError" THEN "ValueError in _load_secrets"
                        ELSE "IndexError in _load_secrets"
FetchUnavailable == "Unavailable in get_doc of stage 1"
ImportError == "IndexError in import_recovery_document"
NoLocalSecret == "AssertionError in _put_secrets_in_shared_db"
PushGetUnavailable == "Unavailable in get_doc of stage 2"
PushPutUnavailable == "Unavailable in put_doc of stage 2"
NoStorageSecret == "KeyError in _init_db"

Errors ==
    {ConfigError, LoadError("ValueError"), LoadError("IndexError"),
     FetchUnavailable, ImportError, NoLocalSecret, PushGetUnavailable,
     PushPutUnavailable, NoStorageSecret}

\* An exception leaves _bootstrap and __init__: the caller gets the error and
\* no instance.
Raised(d, e) == NoInstance(d, e)

\* The signals of leap.common.events the class emits.
SOLEDAD_CREATING_KEYS == "SOLEDAD_CREATING_KEYS"
SOLEDAD_DONE_CREATING_KEYS == "SOLEDAD_DONE_CREATING_KEYS"
SOLEDAD_UPLOADING_KEYS == "SOLEDAD_UPLOADING_KEYS"
SOLEDAD_DONE_UPLOADING_KEYS == "SOLEDAD_DONE_UPLOADING_KEYS"
SOLEDAD_DOWNLOADING_KEYS == "SOLEDAD_DOWNLOADING_KEYS"
SOLEDAD_DONE_DOWNLOADING_KEYS == "SOLEDAD_DONE_DOWNLOADING_KEYS"
SOLEDAD_NEW_DATA_TO_SYNC == "SOLEDAD_NEW_DATA_TO_SYNC"
SOLEDAD_DONE_DATA_SYNC == "SOLEDAD_DONE_DATA_SYNC"

\* signal(...) called by the process of device d, once for each of sigs.
Emit(d, sigs) == signals' = [signals EXCEPT ![d] = @ \o sigs]

\* A construction that makes the work directories before _init_config.
ConstructInitDirsFirst(d, u, p, sid, url) ==
    /\ pc[d] = "none"
    /\ dirs' = [dirs EXCEPT ![d] = TRUE]
    /\ IF url = NoUrl
       THEN Raised(d, ConfigError)
       ELSE /\ pc' = [pc EXCEPT ![d] = "stage1"]
            /\ uuid' = [uuid EXCEPT ![d] = u]
            /\ passphrase' = [passphrase EXCEPT ![d] = p]
            /\ secrets' = [secrets EXCEPT ![d] = EmptyMap]
            /\ secret_id' = [secret_id EXCEPT ![d] = sid]
            /\ server_url' = [server_url EXCEPT ![d] = url]
            /\ creds' = [creds EXCEPT ![d] = u]
            /\ run' = [run EXCEPT ![d] = NewRun(file[d])]
            /\ UNCHANGED <<doc, db, new_id>>
    /\ UNCHANGED <<file, shared, generated, call, signals>>

\* __init__ up to the call of _bootstrap (with _init_config, _set_token).
Construct(d, u, p, sid, url) ==
    /\ pc[d] = "none"
    /\ IF url = NoUrl
       THEN Raised(d, ConfigError)
       ELSE /\ pc' = [pc EXCEPT ![d] = "stage1"]
            /\ uuid' = [uuid EXCEPT ![d] = u]
            /\ passphrase' = [passphrase EXCEPT ![d] = p]
            /\ secrets' = [secrets EXCEPT ![d] = EmptyMap]
            /\ secret_id' = [secret_id EXCEPT ![d] = sid]
            /\ server_url' = [server_url EXCEPT ![d] = url]
            /\ creds' = [creds EXCEPT ![d] = u]
            /\ run' = [run EXCEPT ![d] = NewRun(file[d])]
            /\ UNCHANGED <<doc, db, new_id>>
    /\ UNCHANGED <<file, shared, generated, call, signals, dirs>>

\* _bootstrap stage 0 (_init_dirs makes the work directories) and the test
\* of stage 1: if not self._has_secret()
BootstrapHasSecret(d) ==
    /\ pc[d] = "stage1"
    /\ dirs' = [dirs EXCEPT ![d] = TRUE]
    /\ \E o \in HasSecret(file[d], secrets[d], secret_id[d], passphrase[d]) :
         IF o.result = "raise"
         THEN Raised(d, LoadError(o.raised))
         ELSE /\ secrets' = [secrets EXCEPT ![d] = o.secrets]
              /\ secret_id' = [secret_id EXCEPT ![d] = o.secret_id]
              /\ pc' = [pc EXCEPT ![d] = IF o.result = "true"
                                           THEN "stage2" ELSE "fetch"]
              /\ run' = [run EXCEPT ![d].local = IF o.result = "true"
                                                  THEN "usable"
                                                  ELSE "unusable",
                                    ![d].stages = Append(@, "has_secret")]
              /\ UNCHANGED <<uuid, passphrase, server_url, creds, doc, db,
                             new_id>>
    /\ UNCHANGED <<file, shared, generated, call, signals>>

\* _shared_db: no handle for a false server_url.
HasSharedDb(d) == server_url[d] # ""

\* _get_secrets_from_shared_db called from stage 1, and "if doc:".
GetSecretsFromSharedDb(d) ==
    /\ pc[d] = "fetch"
    /\ IF ~HasSharedDb(d)
       THEN /\ pc' = [pc EXCEPT ![d] = "gen"]
            /\ run' = [run EXCEPT ![d].fetched = "nothing",
                                  ![d].stages = Append(@, "fetch")]
            /\ Emit(d, <<SOLEDAD_DOWNLOADING_KEYS>>)
            /\ UNCHANGED <<uuid, passphrase, server_url, secrets, secret_id,
                           creds, doc, db, new_id>>
       ELSE \E reachable \in BOOLEAN :
              IF ~reachable
              THEN /\ Raised(d, FetchUnavailable)
                   /\ Emit(d, <<SOLEDAD_DOWNLOADING_KEYS>>)
              ELSE LET got == shared[UuidHash(uuid[d])]
                   IN  /\ doc' = [doc EXCEPT ![d] = got]
                       /\ pc' = [pc EXCEPT ![d] =
                                   IF got.found THEN "import" ELSE "gen"]
                       /\ run' = [run EXCEPT ![d].fetched =
                                    IF got.found THEN "document"
                                                 ELSE "nothing",
                                    ![d].fetched_from = UuidHash(uuid[d]),
                                    ![d].stages = Append(@, "fetch")]
                       /\ Emit(d, <<SOLEDAD_DOWNLOADING_KEYS,
                                    SOLEDAD_DONE_DOWNLOADING_KEYS>>)
                       /\ UNCHANGED <<uuid, passphrase, server_url, secrets,
                                      secret_id, creds, db, new_id>>
    /\ UNCHANGED <<file, shared, generated, call, dirs>>

\* _store_secrets: open(path, 'w') empties the file, write and close fill it.
StoreOpen(f) == Truncated

\* A write that never reaches the disk.
StoreWriteLost(map) == Truncated

\* A write of an empty storage_secrets dictionary.
StoreWriteEmpty(map) == Written(EmptyMap)

\* A write that leaves one record of the dictionary out.
StoreWriteDropsRecord(map) ==
    IF DOMAIN map = {}
    THEN Written(map)
    ELSE LET dropped == CHOOSE k \in DOMAIN map : TRUE
         IN  Written([k \in DOMAIN map \ {dropped} |-> map[k]])

StoreWrite(map) == Written(map)

\* A stage 1 that goes on to generate a secret after the import has begun.
BootstrapImportThenGenerate(d) ==
    /\ pc[d] = "import"
    /\ secrets' = [secrets EXCEPT
                     ![d] = MergeSecrets(secrets[d], doc[d].storage_secrets)]
    /\ file' = [file EXCEPT ![d] = StoreOpen(file[d])]
    /\ pc' = [pc EXCEPT ![d] = "gen"]
    /\ run' = [run EXCEPT ![d].stages = Append(@, "import")]
    /\ UNCHANGED <<uuid, passphrase, server_url, secret_id, creds, doc, db,
                   shared, new_id, generated, call, signals, dirs>>

\* import_recovery_document called by stage 1 with doc.content: the merge
\* and the opening of the secrets file.
BootstrapImport(d) ==
    /\ pc[d] = "import"
    /\ secrets' = [secrets EXCEPT
                     ![d] = MergeSecrets(secrets[d], doc[d].storage_secrets)]
    /\ file' = [file EXCEPT ![d] = StoreOpen(file[d])]
    /\ pc' = [pc EXCEPT ![d] = "import_store"]
    /\ run' = [run EXCEPT ![d].stages = Append(@, "import")]
    /\ UNCHANGED <<uuid, passphrase, server_url, secret_id, creds, doc, db,
                   shared, new_id, generated, call, signals, dirs>>

\* An import that takes the first imported id as the active one whether or
\* not one is set.
ImportStoreSecretsAdoptsId(d) ==
    /\ pc[d] \in {"import_store", "api_import_store"}
    /\ file' = [file EXCEPT ![d] = StoreWrite(secrets[d])]
    /\ LET next == IF pc[d] = "import_store" THEN "stage2" ELSE "ready"
           adopted == IF doc[d].uuid # NoUuid THEN doc[d].uuid ELSE uuid[d]
       IN  IF DOMAIN doc[d].storage_secrets # {}
           THEN \E k \in DOMAIN doc[d].storage_secrets :
                  /\ secret_id' = [secret_id EXCEPT ![d] = k]
                  /\ pc' = [pc EXCEPT ![d] = next]
                  /\ uuid' = [uuid EXCEPT ![d] = adopted]
                  /\ UNCHANGED <<passphrase, server_url, secrets, creds, doc,
                                 db, new_id, run>>
           ELSE Raised(d, ImportError)
    /\ UNCHANGED <<shared, generated, call, signals, dirs>>

\* import_recovery_document, the rest: the file is written, the uuid of the
\* document is adopted, an unset secret id becomes the first imported id
\* (IndexError when there is none: stage 1 fails, a later caller gets it).
ImportStoreSecrets(d) ==
    /\ pc[d] \in {"import_store", "api_import_store"}
    /\ file' = [file EXCEPT ![d] = StoreWrite(secrets[d])]
    /\ LET next == IF pc[d] = "import_store" THEN "stage2" ELSE "ready"
           adopted == IF doc[d].uuid # NoUuid THEN doc[d].uuid ELSE uuid[d]
       IN  IF secret_id[d] # None
           THEN /\ pc' = [pc EXCEPT ![d] = next]
                /\ uuid' = [uuid EXCEPT ![d] = adopted]
                /\ UNCHANGED <<passphrase, server_url, secrets, secret_id,
                               creds, doc, db, new_id, run>>
           ELSE IF DOMAIN doc[d].storage_secrets # {}
           THEN \E k \in DOMAIN doc[d].storage_secrets :
                  /\ secret_id' = [secret_id EXCEPT ![d] = k]
                  /\ pc' = [pc EXCEPT ![d] = next]
                  /\ uuid' = [uuid EXCEPT ![d] = adopted]
                  /\ UNCHANGED <<passphrase, server_url, secrets, creds, doc,
                                 db, new_id, run>>
           ELSE IF pc[d] = "import_store"
           THEN Raised(d, ImportError)
           ELSE /\ pc' = [pc EXCEPT ![d] = next]
                /\ uuid' = [uuid EXCEPT ![d] = adopted]
                /\ UNCHANGED <<passphrase, server_url, secrets, secret_id,
                               creds, doc, db, new_id, run>>
    /\ UNCHANGED <<shared, generated, call, signals, dirs>>

\* The secrets os.urandom has drawn so far.
Used == {g.secret : g \in generated}

\* os.urandom(GENERATED_SECRET_LENGTH): a secret never drawn before; the
\* secrets are named in the order in which they are drawn.
Urandom == {m \in Masters \ Used : \A n \in Masters \ Used : m <= n}

\* self._secrets[secret_id] = {...}
PutSecret(map, sid, rec) ==
    [k \in DOMAIN map \cup {sid} |-> IF k = sid THEN rec ELSE map[k]]

\* A _gen_secret that starts without a signal.
CreatingKeysSilent(d) ==
    /\ pc[d] = "gen"
    /\ pc' = [pc EXCEPT ![d] = "gen_secret"]
    /\ run' = [run EXCEPT ![d].stages = Append(@, "generate")]
    /\ UNCHANGED <<uuid, passphrase, server_url, secrets, secret_id, creds,
                   doc, db, file, shared, new_id, generated, call, signals,
                   dirs>>

\* _gen_secret is called: signal(SOLEDAD_CREATING_KEYS, self._uuid).
CreatingKeys(d) ==
    /\ pc[d] = "gen"
    /\ pc' = [pc EXCEPT ![d] = "gen_secret"]
    /\ Emit(d, <<SOLEDAD_CREATING_KEYS>>)
    /\ run' = [run EXCEPT ![d].stages = Append(@, "generate")]
    /\ UNCHANGED <<uuid, passphrase, server_url, secrets, secret_id, creds,
                   doc, db, file, shared, new_id, generated, call, dirs>>

\* _gen_secret from os.urandom up to the opening of the secrets file.
GenSecret(d) ==
    /\ pc[d] = "gen_secret"
    /\ \E secret \in Urandom, salt \in Salts, iv \in IVs :
         LET sid == Sha256Hex(secret)
         IN  /\ secrets' = [secrets EXCEPT
                    ![d] = PutSecret(@, sid,
                             WrappedSecret(secret, passphrase[d], salt, iv))]
             /\ new_id' = [new_id EXCEPT ![d] = sid]
             /\ generated' = generated \cup
                    {[secret |-> secret, uuid |-> uuid[d],
                      shared_db |-> HasSharedDb(d)]}
    /\ file' = [file EXCEPT ![d] = StoreOpen(file[d])]
    /\ pc' = [pc EXCEPT ![d] = "gen_store"]
    /\ UNCHANGED <<uuid, passphrase, server_url, secret_id, creds, doc, db,
                   shared, run, call, signals, dirs>>

\* _gen_secret, the rest, and self._set_secret_id(...) of stage 1.
GenSecretStore(d) ==
    /\ pc[d] = "gen_store"
    /\ file' = [file EXCEPT ![d] = StoreWrite(secrets[d])]
    /\ secret_id' = [secret_id EXCEPT ![d] = new_id[d]]
    /\ pc' = [pc EXCEPT ![d] = "stage2"]
    /\ Emit(d, <<SOLEDAD_DONE_CREATING_KEYS>>)
    /\ UNCHANGED <<uuid, passphrase, server_url, secrets, creds, doc, db,
                   shared, new_id, generated, call, run, dirs>>

\* _put_secrets_in_shared_db up to db.put_doc: the assertion, the get_doc
\* of _get_secrets_from_shared_db with its signals, the content of the
\* document to upload, the signal of the upload.
PutSecretsInSharedDb(d) ==
    /\ pc[d] = "stage2"
    /\ \E o \in HasSecret(file[d], secrets[d], secret_id[d], passphrase[d]),
          reachable \in BOOLEAN :
        LET content == ExportRecoveryDocument(o.secrets, uuid[d], FALSE)
            upload == Doc(UuidHash(uuid[d]), content.storage_secrets,
                          content.uuid)
        IN  IF o.result = "raise"
            THEN /\ Raised(d, LoadError(o.raised))
                 /\ UNCHANGED signals
            ELSE IF o.result = "false"
            THEN /\ Raised(d, NoLocalSecret)
                 /\ UNCHANGED signals
            ELSE IF HasSharedDb(d) /\ ~reachable
            THEN /\ Raised(d, PushGetUnavailable)
                 /\ Emit(d, <<SOLEDAD_DOWNLOADING_KEYS>>)
            ELSE /\ secrets' = [secrets EXCEPT ![d] = o.secrets]
                 /\ secret_id' = [secret_id EXCEPT ![d] = o.secret_id]
                 /\ doc' = [doc EXCEPT ![d] = upload]
                 /\ pc' = [pc EXCEPT ![d] = IF HasSharedDb(d)
                                              THEN "put" ELSE "stage3"]
                 /\ Emit(d, IF HasSharedDb(d)
                            THEN <<SOLEDAD_DOWNLOADING_KEYS,
                                   SOLEDAD_DONE_DOWNLOADING_KEYS,
                                   SOLEDAD_UPLOADING_KEYS>>
                            ELSE <<SOLEDAD_DOWNLOADING_KEYS,
                                   SOLEDAD_UPLOADING_KEYS>>)
                 /\ run' = [run EXCEPT ![d].stages =
                              IF HasSharedDb(d)
                              THEN Append(@, "push")
                              ELSE Append(Append(@, "push"), "pushed")]
                 /\ UNCHANGED <<uuid, passphrase, server_url, creds, db,
                                new_id>>
    /\ UNCHANGED <<file, shared, generated, call, dirs>>

\* A put_doc whose failure is swallowed: the run goes on to _init_db.
PutDocErrorIgnored(d) ==
    /\ pc[d] = "put"
    /\ \E reachable \in BOOLEAN :
         /\ shared' = IF reachable
                       THEN [shared EXCEPT ![doc[d].doc_id] = doc[d]]
                       ELSE shared
         /\ pc' = [pc EXCEPT ![d] = "stage3"]
         /\ run' = [run EXCEPT ![d].puts = IF reachable THEN @ + 1 ELSE @,
                               ![d].stages = Append(@, "pushed")]
         /\ Emit(d, <<SOLEDAD_DONE_UPLOADING_KEYS>>)
         /\ UNCHANGED <<uuid, passphrase, server_url, secrets, secret_id,
                        creds, doc, db, new_id>>
    /\ UNCHANGED <<file, generated, call, dirs>>

\* db.put_doc(doc) of _put_secrets_in_shared_db and the signal after it.
PutDoc(d) ==
    /\ pc[d] = "put"
    /\ \E reachable \in BOOLEAN :
         IF reachable
         THEN /\ shared' = [shared EXCEPT ![doc[d].doc_id] = doc[d]]
              /\ pc' = [pc EXCEPT ![d] = "stage3"]
              /\ run' = [run EXCEPT ![d].puts = @ + 1,
                                    ![d].stages = Append(@, "pushed")]
              /\ Emit(d, <<SOLEDAD_DONE_UPLOADING_KEYS>>)
              /\ UNCHANGED <<uuid, passphrase, server_url, secrets, secret_id,
                             creds, doc, db, new_id>>
         ELSE /\ Raised(d, PushPutUnavailable)
              /\ UNCHANGED <<shared, signals>>
    /\ UNCHANGED <<file, generated, call, dirs>>

\* _init_db: the storage secret is unwrapped and sqlcipher_open is called.
InitDb(d) ==
    /\ pc[d] = "stage3"
    /\ LET secret == GetStorageSecret(secrets[d], secret_id[d], passphrase[d])
       IN  IF secret.raised # ""
           THEN Raised(d, NoStorageSecret)
           ELSE /\ pc' = [pc EXCEPT ![d] = "ready"]
                /\ db' = [db EXCEPT ![d] = [open |-> TRUE,
                                            key |-> LocalDbKey(secret.value)]]
                /\ run' = [run EXCEPT ![d].stages = Append(@, "open")]
                /\ UNCHANGED <<uuid, passphrase, server_url, secrets,
                               secret_id, creds, doc, new_id>>
    /\ UNCHANGED <<file, shared, generated, call, signals, dirs>>

\* The recovery documents a caller may hand to import_recovery_document:
\* any of two secrets, each wrapped under any passphrase, with or without a
\* uuid. The device itself may draw the same secrets.
DocSecrets == {1, 2}

RecoveryDocuments ==
    {[storage_secrets |->
          [k \in {Sha256Hex(m) : m \in S} |->
              WrappedSecret(k[2], pw[k[2]], 0, 0)],
      uuid |-> u] :
        S \in SUBSET DocSecrets, pw \in [DocSecrets -> Passphrases],
        u \in Uuids \cup {NoUuid}}

\* import_recovery_document called on a bootstrapped instance.
ImportRecoveryDocument(d, data) ==
    /\ pc[d] = "ready"
    /\ doc' = [doc EXCEPT ![d] = Doc(None, data.storage_secrets, data.uuid)]
    /\ secrets' = [secrets EXCEPT
                     ![d] = MergeSecrets(secrets[d], data.storage_secrets)]
    /\ file' = [file EXCEPT ![d] = StoreOpen(file[d])]
    /\ pc' = [pc EXCEPT ![d] = "api_import_store"]
    /\ UNCHANGED <<uuid, passphrase, server_url, secret_id, creds, db,
                   shared, new_id, generated, call, run, signals, dirs>>

\* The user moves to a new device: a new process starts from an empty disk
\* (the shared database stays).
NewDevice(d) ==
    /\ pc[d] = "none"
    /\ file[d] # NoFile
    /\ file' = [file EXCEPT ![d] = NoFile]
    /\ dirs' = [dirs EXCEPT ![d] = FALSE]
    /\ UNCHANGED <<pc, uuid, passphrase, server_url, secrets, secret_id,
                   creds, doc, db, shared, new_id, generated, call, run,
                   signals>>

\* The process ends (exit, kill, power loss): memory is lost, the disk and
\* the shared database stay.
Crash(d) ==
    /\ pc[d] # "none"
    /\ NoInstance(d, "none")
    /\ signals' = [signals EXCEPT ![d] = << >>]
    /\ UNCHANGED <<file, shared, generated, call, dirs>>

\* One step of __init__: construction and the stages of _bootstrap.
Initialize(d) ==
    \/ \E u \in Uuids, p \in Passphrases,
          sid \in SecretIds \cup {None}, url \in ServerUrls \cup {NoUrl} :
            Construct(d, u, p, sid, url)
    \/ BootstrapHasSecret(d)
    \/ GetSecretsFromSharedDb(d)
    \/ BootstrapImport(d)
    \/ ImportStoreSecrets(d)
    \/ CreatingKeys(d)
    \/ GenSecret(d)
    \/ GenSecretStore(d)
    \/ PutSecretsInSharedDb(d)
    \/ PutDoc(d)
    \/ InitDb(d)

\* One step of a device's process: construction and bootstrap, or its end.
Bootstrap(d) ==
    \/ Initialize(d)
    \/ Crash(d)

\* Several devices bootstrap against one shared recovery database.
Next == \E d \in Devices : Bootstrap(d)

Spec == Init /\ [][Next]_vars

\* One device at a time: its bootstrapped instance is handed recovery
\* documents, and the user may move on to a new device.
ApiDevice == "d1"

NextApi ==
    \/ Bootstrap(ApiDevice)
    \/ \E data \in RecoveryDocuments : ImportRecoveryDocument(ApiDevice, data)
    \/ NewDevice(ApiDevice)

SpecApi == Init /\ [][NextApi]_vars

(***************************************************************************)
(* The functions of the crypto module and of the secret management called  *)
(* on their own.                                                           *)
(***************************************************************************)
AES_256_CTR == "aes-256-ctr"
Methods == {AES_256_CTR, "aes-128-cbc"}

\* Keys: their length in bytes and their bytes.
KeyLengths == {16, 32}
CryptoKeys ==
    [len : KeyLengths,
     val : {Scrypt(p, salt) : p \in Passphrases, salt \in SaltValues}]

Plaintexts == 0..(PlainSpace - 1)

\* The keyword arguments of decrypt_sym: none, or an iv.
Kwargs == {<< >>} \cup {[iv |-> B2aBase64(iv)] : iv \in IvValues}

\* The exceptions of the two functions: the AssertionError of soledad_assert
\* with the message of the failed assertion, and UnknownEncryptionMethod.
WrongKeySize == "AssertionError: Wrong key size"
MissingIV == "AssertionError: AES-256-CTR needs an initial value."
UnknownEncryptionMethod == "UnknownEncryptionMethod"

\* encrypt_sym(data, key, method), iv being what os.urandom(8) returns.
encrypt_sym(data, key, method, iv) ==
    IF method = AES_256_CTR
    THEN IF key.len # 32
         THEN Raise(WrongKeySize)
         ELSE Return(EncryptSym(data, key.val, iv))
    ELSE Raise(UnknownEncryptionMethod)

\* A decryption that asks for the iv before it looks at the key.
decrypt_sym_iv_first(data, key, method, kwargs) ==
    IF method = AES_256_CTR
    THEN IF "iv" \notin DOMAIN kwargs
         THEN Raise(MissingIV)
         ELSE IF key.len # 32
              THEN Raise(WrongKeySize)
              ELSE Return(DecryptSym(data, key.val, kwargs.iv))
    ELSE Raise(UnknownEncryptionMethod)

\* decrypt_sym(data, key, method, **kwargs): the assertion on the key
\* length comes before the one on the iv.
decrypt_sym(data, key, method, kwargs) ==
    IF method = AES_256_CTR
    THEN IF key.len # 32
         THEN Raise(WrongKeySize)
         ELSE IF "iv" \notin DOMAIN kwargs
              THEN Raise(MissingIV)
              ELSE Return(DecryptSym(data, key.val, kwargs.iv))
    ELSE Raise(UnknownEncryptionMethod)

\* A call that is about to be made.
Call(op, args) == [op |-> op, args |-> args, done |-> FALSE, out |-> << >>]

\* The call returns or raises.
Outcome(out) == call' = [call EXCEPT !.done = TRUE, !.out = out]

\* _gen_secret under a passphrase with os.urandom returning secret, salt and
\* iv, then _get_storage_secret with the new id active.
GenAndGetSecret ==
    /\ call.op = "_gen_secret"
    /\ ~call.done
    /\ LET sid == Sha256Hex(call.args.secret)
           rec == WrappedSecret(call.args.secret, call.args.passphrase,
                                call.args.salt, call.args.iv)
       IN  Outcome([secret_id |-> sid, record |-> rec,
                    storage_secret |->
                        GetStorageSecret(PutSecret(EmptyMap, sid, rec), sid,
                                         call.args.passphrase)])
    /\ UNCHANGED <<pc, uuid, passphrase, server_url, secrets, secret_id,
                   creds, doc, db, file, shared, new_id, generated, run,
                   signals, dirs>>

\* encrypt_sym(data, key, method), then decrypt_sym of the ciphertext with
\* key2 and kwargs.
EncryptDecrypt ==
    /\ call.op = "encrypt_sym"
    /\ ~call.done
    /\ LET enc == encrypt_sym(call.args.data, call.args.key,
                              call.args.method, call.args.iv)
       IN  Outcome([enc |-> enc,
                    dec |-> IF enc.raised # "" THEN enc
                            ELSE decrypt_sym(enc.value[2], call.args.key2,
                                             call.args.method,
                                             call.args.kwargs)])
    /\ UNCHANGED <<pc, uuid, passphrase, server_url, secrets, secret_id,
                   creds, doc, db, file, shared, new_id, generated, run,
                   signals, dirs>>

\* decrypt_sym(data, key, method, **kwargs) on any data, key, method tag and
\* keyword arguments.
DecryptSymCall ==
    /\ call.op = "decrypt_sym"
    /\ ~call.done
    /\ Outcome(decrypt_sym(call.args.data, call.args.key, call.args.method,
                           call.args.kwargs))
    /\ UNCHANGED <<pc, uuid, passphrase, server_url, secrets, secret_id,
                   creds, doc, db, file, shared, new_id, generated, run,
                   signals, dirs>>

\* The maps of wrapped secrets a secrets file or an instance may hold.
StoredMaps == {data.storage_secrets : data \in RecoveryDocuments}

SecretsFiles == {NoFile, Truncated} \cup {Written(map) : map \in StoredMaps}

\* _load_secrets on an instance holding a map and an active id, the disk
\* holding the file.
LoadSecretsCall ==
    /\ call.op = "_load_secrets"
    /\ ~call.done
    /\ \E o \in LoadSecrets(call.args.file, call.args.secrets,
                             call.args.secret_id) : Outcome(o)
    /\ UNCHANGED <<pc, uuid, passphrase, server_url, secrets, secret_id,
                   creds, doc, db, file, shared, new_id, generated, run,
                   signals, dirs>>

\* _has_secret on an instance holding a map, an active id and a passphrase,
\* the disk holding the file.
HasSecretCall ==
    /\ call.op = "_has_secret"
    /\ ~call.done
    /\ \E o \in HasSecret(call.args.file, call.args.secrets,
                           call.args.secret_id, call.args.passphrase) :
         Outcome(o)
    /\ UNCHANGED <<pc, uuid, passphrase, server_url, secrets, secret_id,
                   creds, doc, db, file, shared, new_id, generated, run,
                   signals, dirs>>

MAC_KEY_LENGTH == 64

\* hmac.new(key, msg, hashlib.sha256).digest()
Hmac(key, msg) == <<"hmac-sha256", key, msg>>

\* self.secret of SoledadCrypto: the storage_secret property of the Soledad
\* instance, which is _get_storage_secret(): the secret, or its exception.
StorageSecret(map, sid, p) == GetStorageSecret(map, sid, p)

\* doc_passphrase(doc_id): "if self.secret is None" first evaluates the
\* property, whose exception leaves the method; the property returns a
\* string otherwise, never None, so NoSymmetricSecret is never raised.
DocPassphrase(map, sid, p, doc_id) ==
    LET secret == StorageSecret(map, sid, p)
    IN  IF secret.raised # ""
        THEN secret
        ELSE Return(Hmac(Slice(secret.value, MAC_KEY_LENGTH,
                               REMOTE_STORAGE_SECRET_LENGTH), doc_id))

\* doc_mac_key(doc_id)
DocMacKey(map, sid, p, doc_id) ==
    LET secret == StorageSecret(map, sid, p)
    IN  IF secret.raised # ""
        THEN secret
        ELSE Return(Hmac(Slice(secret.value, 0, MAC_KEY_LENGTH), doc_id))

DocumentIds == {"doc-1", "doc-2"}

\* doc_passphrase or doc_mac_key on the crypto object of an instance holding
\* a map, an active id and a passphrase.
DerivationCall ==
    /\ call.op \in {"doc_passphrase", "doc_mac_key"}
    /\ ~call.done
    /\ Outcome(IF call.op = "doc_passphrase"
               THEN DocPassphrase(call.args.secrets, call.args.secret_id,
                                  call.args.passphrase, call.args.doc_id)
               ELSE DocMacKey(call.args.secrets, call.args.secret_id,
                              call.args.passphrase, call.args.doc_id))
    /\ UNCHANGED <<pc, uuid, passphrase, server_url, secrets, secret_id,
                   creds, doc, db, file, shared, new_id, generated, run,
                   signals, dirs>>

\* The generations of a replica, and the answers of get_sync_info: a tuple
\* whose fifth element is the last generation of the source the target
\* knows of.
Generations == 0..1

SyncInfos ==
    {<<"replica-uid", target_gen, "trans-id", source_gen, known_gen>> :
        target_gen \in Generations, source_gen \in Generations,
        known_gen \in Generations}

\* A comparison with the generation of the target replica itself.
need_sync_target_generation(generation, info) ==
    IF generation # info[2]
    THEN [value |-> TRUE, signals |-> <<SOLEDAD_NEW_DATA_TO_SYNC>>]
    ELSE [value |-> FALSE, signals |-> << >>]

\* need_sync(url), by the generation of the local replica and the answer of
\* target.get_sync_info: the value returned and the signals emitted.
need_sync(generation, info) ==
    IF generation # info[5]
    THEN [value |-> TRUE, signals |-> <<SOLEDAD_NEW_DATA_TO_SYNC>>]
    ELSE [value |-> FALSE, signals |-> << >>]

\* need_sync(url) with the local replica at a generation and the target
\* answering get_sync_info with info.
NeedSyncCall ==
    /\ call.op = "need_sync"
    /\ ~call.done
    /\ Outcome(need_sync(call.args.generation, call.args.info))
    /\ UNCHANGED <<pc, uuid, passphrase, server_url, secrets, secret_id,
                   creds, doc, db, file, shared, new_id, generated, run,
                   signals, dirs>>

\* The calls: every function on every argument of the bounds.
GenSecretCalls ==
    {Call("_gen_secret",
          [passphrase |-> p, secret |-> secret, salt |-> salt, iv |-> iv]) :
        p \in Passphrases, secret \in Plaintexts, salt \in SaltValues,
        iv \in IvValues}

EncryptSymCalls ==
    {Call("encrypt_sym",
          [data |-> data, key |-> key, method |-> method, iv |-> iv,
           key2 |-> key2, kwargs |-> kwargs]) :
        data \in Plaintexts, key \in CryptoKeys, method \in Methods,
        iv \in IvValues, key2 \in CryptoKeys, kwargs \in Kwargs}

DecryptSymCalls ==
    {Call("decrypt_sym",
          [data |-> data, key |-> key, method |-> method,
           kwargs |-> kwargs]) :
        data \in Plaintexts, key \in CryptoKeys, method \in Methods,
        kwargs \in Kwargs}

LoadSecretsCalls ==
    {Call("_load_secrets",
          [file |-> f, secrets |-> map, secret_id |-> sid]) :
        f \in SecretsFiles, map \in StoredMaps,
        sid \in SecretIds \cup {None}}

HasSecretCalls ==
    {Call("_has_secret",
          [file |-> f, secrets |-> map, secret_id |-> sid,
           passphrase |-> p]) :
        f \in SecretsFiles, map \in StoredMaps,
        sid \in SecretIds \cup {None}, p \in Passphrases}

DerivationCalls ==
    {Call(fn, [secrets |-> map, secret_id |-> sid, passphrase |-> p,
               doc_id |-> doc_id]) :
        fn \in {"doc_passphrase", "doc_mac_key"}, map \in StoredMaps,
        sid \in SecretIds \cup {None}, p \in Passphrases,
        doc_id \in DocumentIds}

NeedSyncCalls ==
    {Call("need_sync", [generation |-> generation, info |-> info]) :
        generation \in Generations, info \in SyncInfos}

\* The functions are pure: a behaviour is one call, on any arguments.
InitCalls ==
    /\ NoProcess
    /\ \/ call \in GenSecretCalls
       \/ call \in EncryptSymCalls
       \/ call \in DecryptSymCalls
       \/ call \in LoadSecretsCalls
       \/ call \in HasSecretCalls
       \/ call \in DerivationCalls
       \/ call \in NeedSyncCalls

NextCalls ==
    \/ GenAndGetSecret
    \/ EncryptDecrypt
    \/ DecryptSymCall
    \/ LoadSecretsCall
    \/ HasSecretCall
    \/ DerivationCall
    \/ NeedSyncCall

SpecCalls == InitCalls /\ [][NextCalls]_vars

(***************************************************************************)
(* One process from its construction on: the shared recovery database may  *)
(* already hold a recovery document of any origin, and the bootstrapped    *)
(* instance is used through its public operations.                         *)
(***************************************************************************)
MaxSyncSignals == 1

\* The recovery documents of any origin: any map of wrapped secrets, with or
\* without a uuid, which may be another one than the uuid of the process.
AnyRecoveryDocuments ==
    {[storage_secrets |-> map, uuid |-> u] :
        map \in StoredMaps, u \in Uuids \cup DocUuids \cup {NoUuid}}

\* What the shared recovery database may hold when the process starts: no
\* document of the user, or one of any content under the user's document id.
SharedDbs ==
    {[i \in DocIds |->
         IF i # UuidHash(u) \/ held = NoDoc THEN NoDoc
         ELSE Doc(i, held.storage_secrets, held.uuid)] :
        u \in Uuids, held \in {NoDoc} \cup AnyRecoveryDocuments}

\* The signals of sync and need_sync among the signals of a process.
SyncSignals(d) ==
    {i \in DOMAIN signals[d] :
        signals[d][i] \in {SOLEDAD_NEW_DATA_TO_SYNC, SOLEDAD_DONE_DATA_SYNC}}

\* The token property is assigned: _set_token builds the credentials anew.
SetToken(d) ==
    /\ pc[d] = "ready"
    /\ creds' = [creds EXCEPT ![d] = uuid[d]]
    /\ UNCHANGED <<pc, uuid, passphrase, server_url, secrets, secret_id, doc,
                   db, file, shared, new_id, generated, run, call, signals,
                   dirs>>

\* sync(): self._db.sync with the url of the user's replica and the
\* credentials, then the signal.
Sync(d) ==
    /\ pc[d] = "ready"
    /\ Cardinality(SyncSignals(d)) < MaxSyncSignals
    /\ Emit(d, <<SOLEDAD_DONE_DATA_SYNC>>)
    /\ UNCHANGED <<pc, uuid, passphrase, server_url, secrets, secret_id,
                   creds, doc, db, file, shared, new_id, generated, run,
                   call, dirs>>

\* need_sync(url) on a bootstrapped instance.
NeedSync(d) ==
    /\ pc[d] = "ready"
    /\ Cardinality(SyncSignals(d)) < MaxSyncSignals
    /\ \E generation \in Generations, info \in SyncInfos :
         Emit(d, need_sync(generation, info).signals)
    /\ UNCHANGED <<pc, uuid, passphrase, server_url, secrets, secret_id,
                   creds, doc, db, file, shared, new_id, generated, run,
                   call, dirs>>

InitOps ==
    /\ NoInstances
    /\ shared \in SharedDbs
    /\ call = NoCall

NextOps ==
    \/ Initialize(ApiDevice)
    \/ \E data \in AnyRecoveryDocuments :
         ImportRecoveryDocument(ApiDevice, data)
    \/ SetToken(ApiDevice)
    \/ Sync(ApiDevice)
    \/ NeedSync(ApiDevice)

SpecOps == InitOps /\ [][NextOps]_vars

(***************************************************************************)
(* Properties.                                                             *)
(***************************************************************************)
FileIds(d) == {p[1] : p \in file[d].data}

Unwrapped(d) == GetStorageSecret(secrets[d], secret_id[d], passphrase[d])

SharedDoc(d) == shared[UuidHash(uuid[d])]

\* C1: the local database is open only in a state where an active secret id
\* is set, is a key of the in-memory secrets map and the active wrapped
\* secret unwraps without error (to the secret the database key was derived
\* from); no run opens the local database before that.
C1_DbOpenOnlyWithSecret ==
    \A d \in Devices :
        db[d].open =>
            /\ secret_id[d] # None
            /\ secret_id[d] \in DOMAIN secrets[d]
            /\ Unwrapped(d).raised = ""
            /\ db[d].key = LocalDbKey(Unwrapped(d).value)

C1_Witness ==
    \E d \in Devices :
        /\ pc[d] = "ready"
        /\ db[d].open
        /\ secret_id[d] \in DOMAIN secrets[d]

\* C2: whenever bootstrap reaches the opening of the local database, the
\* shared recovery database holds, under the uuid-derived document id, a
\* recovery document whose storage_secrets contains the active secret id,
\* also in the runs that obtain no shared-db handle.
C2_SharedHoldsSecretAtOpen ==
    \A d \in Devices :
        pc[d] = "stage3" =>
            /\ SharedDoc(d).found
            /\ secret_id[d] \in DOMAIN SharedDoc(d).storage_secrets

\* C3: local before remote: a put_doc to the shared db whose content
\* contains secret id s happens only when a write of the local secrets file
\* containing s has completed.
C3_LocalBeforeRemote ==
    [][\A d \in Devices :
         (pc[d] = "put" /\ pc'[d] = "stage3") =>
             /\ file[d].state = "written"
             /\ DOMAIN shared'[doc[d].doc_id].storage_secrets \subseteq
                    FileIds(d)]_vars

C3_Witness ==
    \E d \in Devices :
        /\ pc[d] = "stage3"
        /\ HasSharedDb(d)
        /\ new_id[d] # None
        /\ new_id[d] \in DOMAIN SharedDoc(d).storage_secrets
        /\ new_id[d] \in FileIds(d)

\* C4: a cryptographic integrity failure is fatal to bootstrap: in every
\* READY state the active wrapped secret, unwrapped with the current
\* passphrase, hashes to the active secret id.
C4_ReadyImpliesIntegrity ==
    \A d \in Devices :
        pc[d] = "ready" => Sha256Hex(Unwrapped(d).value) = secret_id[d]

\* C5: _has_secret returns true iff a secret id is selected, present in the
\* map and its wrapped secret unwraps, with the current passphrase, to the
\* secret of that id; with a secrets file produced under another passphrase
\* it returns false.
C5_HasSecretIffUsable ==
    \A d \in Devices :
        pc[d] = "stage1" =>
            \A o \in HasSecret(file[d], secrets[d], secret_id[d],
                               passphrase[d]) :
                o.result # "raise" =>
                    LET got == GetStorageSecret(o.secrets, o.secret_id,
                                                passphrase[d])
                    IN  (o.result = "true") <=>
                            /\ o.secret_id # None
                            /\ o.secret_id \in DOMAIN o.secrets
                            /\ got.raised = ""
                            /\ Sha256Hex(got.value) = o.secret_id

\* C6: bootstrap never generates a new secret when a local secrets file with
\* at least one entry exists but its selected secret cannot be used.
C6_NoGenerateOverExistingFile ==
    \A d \in Devices :
        pc[d] = "gen" => ~(file[d].state = "written" /\ file[d].data # {})

\* C7: merge monotonicity of import_recovery_document: every secret id of
\* the map is still present with an unchanged wrapped record, every id of the
\* document is present, and when the call returns the persisted secrets file
\* equals the merged map.
C7_MergeMonotonicity ==
    [][\A d \in Devices :
         /\ (pc[d] \in {"import", "ready"}
               /\ pc'[d] \in {"import_store", "api_import_store"}) =>
                /\ \A k \in DOMAIN secrets[d] :
                      /\ k \in DOMAIN secrets'[d]
                      /\ secrets'[d][k] = secrets[d][k]
                /\ DOMAIN doc'[d].storage_secrets \subseteq DOMAIN secrets'[d]
         /\ (pc[d] \in {"import_store", "api_import_store"}
               /\ pc'[d] \in {"stage2", "ready"}) =>
                /\ secrets'[d] = secrets[d]
                /\ file'[d].state = "written"
                /\ JsonLoads(file'[d].data) = secrets'[d]]_vars

C7_Witness ==
    \E d \in Devices :
        /\ pc[d] = "ready"
        /\ doc[d].found
        /\ doc[d].doc_id = None
        /\ JsonLoads(file[d].data) = secrets[d]
        /\ \E k \in DOMAIN secrets[d] \cap DOMAIN doc[d].storage_secrets :
              secrets[d][k] # doc[d].storage_secrets[k]
        /\ DOMAIN secrets[d] \ DOMAIN doc[d].storage_secrets # {}

\* C8: the shared recovery document is set-unioned: a secret id once present
\* in it is never removed by a later push.
C8_SharedDocNeverLosesId ==
    [][\A i \in DocIds :
         shared[i].found =>
             /\ shared'[i].found
             /\ DOMAIN shared[i].storage_secrets \subseteq
                    DOMAIN shared'[i].storage_secrets]_vars

\* C9: a master secret is created exactly once per user identity: over all
\* bootstrap runs of the devices of one uuid that hold a handle of the one
\* shared db, _gen_secret runs at most once in total.
C9_GeneratedAtMostOnce ==
    \A u \in Uuids :
        Cardinality({g \in generated : g.uuid = u /\ g.shared_db}) <= 1

\* C10: in every READY state the secrets map and the secrets file on disk
\* hold at least one entry and the active secret id is a key of the map.
C10_ReadyHasSecrets ==
    \A d \in Devices :
        pc[d] = "ready" =>
            /\ DOMAIN secrets[d] # {}
            /\ file[d].state = "written"
            /\ FileIds(d) # {}
            /\ secret_id[d] \in DOMAIN secrets[d]

C10_Witness ==
    \E d \in Devices :
        /\ pc[d] = "ready"
        /\ Cardinality(DOMAIN secrets[d]) > 1
        /\ FileIds(d) = DOMAIN secrets[d]

\* C11: a failure of the shared db during the fetch of stage 1 is not fatal:
\* the get_doc error of the probe is never surfaced to the caller of bootstrap
\* (the run goes on to generate a secret).
C11_FetchFailureNotFatal ==
    \A d \in Devices : pc[d] # FetchUnavailable

\* C12: a failure of the shared db during the push of stage 2 is fatal: when
\* put_doc (or the get_doc of the push) fails, the error reaches the caller
\* of bootstrap, the local database is not opened in that run, and the
\* secrets file keeps what it held.
C12_PushFailureFatal ==
    [][\A d \in Devices :
         /\ (pc[d] = "put" /\ pc'[d] # "put"
               /\ shared'[doc[d].doc_id] # doc[d]) =>
                /\ pc'[d] \in {PushPutUnavailable, "none"}
                /\ ~db'[d].open
                /\ file'[d] = file[d]
         /\ (pc[d] = "stage2" /\ pc'[d] \in {"put", "stage3"}) =>
                (HasSharedDb(d) <=> pc'[d] = "put")
         /\ pc'[d] \in {PushGetUnavailable, PushPutUnavailable} =>
                /\ pc[d] \in {"stage2", "put", pc'[d]}
                /\ ~db'[d].open
                /\ file'[d] = file[d]]_vars

C12_Witness ==
    \E d \in Devices :
        /\ pc[d] = PushPutUnavailable
        /\ file[d].state = "written"
        /\ file[d].data # {}
        /\ ~db[d].open
        /\ \A i \in DocIds : ~shared[i].found

\* Scenario A: the run began on an empty disk and the shared db answered the
\* fetch of stage 1 with no document.
FreshUser(d) ==
    /\ run[d].empty_disk
    /\ run[d].local = "unusable"
    /\ HasSharedDb(d)
    /\ run[d].fetched = "nothing"

\* C13: scenario A (fresh user): from an empty disk and a shared db without
\* a document of the user, a completed bootstrap leaves a secrets file with
\* exactly one entry, keyed by sha256_hex of the generated secret, and the
\* shared db has received exactly one put, to sha256_hex("uuid-" + uuid),
\* whose storage_secrets is the local map and which carries no uuid.
C13_FreshUser ==
    [][\A d \in Devices :
         (pc[d] = "stage3" /\ pc'[d] = "ready" /\ FreshUser(d)) =>
            /\ file'[d].state = "written"
            /\ Cardinality(file'[d].data) = 1
            /\ \E g \in generated' :
                  /\ g.uuid = uuid'[d]
                  /\ {p[1] : p \in file'[d].data} = {Sha256Hex(g.secret)}
                  /\ secret_id'[d] = Sha256Hex(g.secret)
            /\ run'[d].puts = 1
            /\ doc'[d].doc_id = Sha256Hex(<<"uuid-", uuid'[d]>>)
            /\ doc'[d].storage_secrets = JsonLoads(file'[d].data)
            /\ doc'[d].storage_secrets = secrets'[d]
            /\ doc'[d].uuid = NoUuid]_vars

C13_Witness ==
    \E d \in Devices :
        /\ pc[d] = "ready"
        /\ FreshUser(d)
        /\ run[d].puts = 1
        /\ doc[d].doc_id = UuidHash(uuid[d])
        /\ shared[UuidHash(uuid[d])] = doc[d]

\* Scenario B: stage 1 found a local secret, and it is usable: unwrapped with
\* the passphrase of the run it is the secret of the active id.
ReturningUser(d) ==
    /\ run[d].local = "usable"
    /\ Unwrapped(d).raised = ""
    /\ Sha256Hex(Unwrapped(d).value) = secret_id[d]

\* C14: scenario B (returning user): a bootstrap that starts with a secrets
\* file whose secret is usable with the given passphrase makes no put_doc on
\* the shared db, and opens the local database with the hex of the key
\* derived from that secret.
C14_ReturningUser ==
    \A d \in Devices :
        ReturningUser(d) =>
            /\ run[d].puts = 0
            /\ pc[d] = "ready" =>
                  /\ db[d].open
                  /\ \E m \in Masters :
                        /\ Sha256Hex(m) = secret_id[d]
                        /\ db[d].key = LocalDbKey(m)

\* Scenario C: the run began on an empty disk and the fetch of stage 1
\* returned a recovery document (its storage_secrets is never empty: only
\* _put_secrets_in_shared_db writes it, after _has_secret()).
DeviceMigration(d) ==
    /\ run[d].empty_disk
    /\ run[d].fetched = "document"

\* C15: scenario C (device migration): from an empty disk, when the fetch
\* returns a recovery document with secrets, bootstrap never generates a
\* secret; it writes a secrets file with exactly the ids of that document,
\* takes as active an id of the imported map (the first one, when none was
\* given), and any put it makes leaves the set of secret ids of the shared
\* document as it was.
C15_DeviceMigration ==
    [][\A d \in Devices :
         DeviceMigration(d) =>
            /\ pc[d] \notin {"gen", "gen_secret", "gen_store"}
            /\ new_id[d] = None
            /\ (pc[d] = "import" /\ pc'[d] = "import_store") =>
                  DOMAIN doc[d].storage_secrets # {}
            /\ (pc[d] = "import_store" /\ pc'[d] = "stage2") =>
                  /\ file'[d].state = "written"
                  /\ {p[1] : p \in file'[d].data} =
                        DOMAIN doc[d].storage_secrets
                  /\ secret_id[d] = None =>
                        secret_id'[d] \in DOMAIN doc[d].storage_secrets
            /\ (pc[d] = "put" /\ pc'[d] = "stage3") =>
                  DOMAIN shared'[doc[d].doc_id].storage_secrets =
                      DOMAIN shared[doc[d].doc_id].storage_secrets]_vars

\* C16: wrap/unwrap round trip with secret-id integrity: for every
\* passphrase p and every secret m that _gen_secret draws under p, the record
\* stored under sha256_hex(m) unwraps with p (_get_storage_secret with that
\* id active) to exactly m, so that sha256_hex of the unwrapped secret is the
\* id of the record.
C16_WrapUnwrapRoundTrip ==
    (call.op = "_gen_secret" /\ call.done) =>
        /\ call.out.storage_secret = Return(call.args.secret)
        /\ Sha256Hex(call.out.storage_secret.value) = call.out.secret_id

C16_Witness ==
    /\ call.op = "_gen_secret"
    /\ call.done
    /\ call.args.salt # 0
    /\ call.args.iv # 0
    /\ call.args.passphrase = "wrong"
    /\ A2bBase64(call.out.record.secret[3]) < call.args.secret
    /\ call.out.storage_secret.value = call.args.secret

\* C17: encryption round trip: for every 32-byte key k and plaintext x, if
\* encrypt_sym(x, k) returns (iv, ct) then decrypt_sym(ct, k, iv=iv) is x;
\* decrypting with another 32-byte key or another iv raises nothing.
C17_EncryptDecryptRoundTrip ==
    (/\ call.op = "encrypt_sym"
     /\ call.done
     /\ call.args.key.len = 32
     /\ call.args.method = AES_256_CTR) =>
        /\ call.out.enc.raised = ""
        /\ (/\ call.args.key2 = call.args.key
            /\ call.args.kwargs = [iv |-> call.out.enc.value[1]]) =>
                call.out.dec = Return(call.args.data)
        /\ (call.args.key2.len = 32 /\ "iv" \in DOMAIN call.args.kwargs) =>
                call.out.dec.raised = ""

C17_Witness ==
    /\ call.op = "encrypt_sym"
    /\ call.done
    /\ call.out.enc.raised = ""
    /\ call.args.key2.len = 32
    /\ call.args.key2 # call.args.key
    /\ "iv" \in DOMAIN call.args.kwargs
    /\ call.args.kwargs.iv # call.out.enc.value[1]
    /\ call.out.dec.raised = ""
    /\ call.out.dec.value # call.args.data

\* C18: _store_secrets writes the secrets map atomically: when the process
\* ends at any point of a save, the secrets file afterwards holds the
\* previous content or the new content, never an empty or partial file.
C18_StoreSecretsAtomic ==
    \A d \in Devices :
        pc[d] = "none" => file[d].state # "truncated"

\* C19: _load_secrets merges the map of the file into the map in memory:
\* after a successful load every id that was in memory is still there, with
\* every id of the file; an unset active id becomes the first entry of the
\* file's map, a set one is left alone; without a file the load fails with
\* IOError and leaves map and active id as they were.
C19_LoadSecretsMerges ==
    (call.op = "_load_secrets" /\ call.done) =>
        LET ids == {p[1] : p \in call.args.file.data}
        IN  /\ call.out.raised = "" =>
                  /\ DOMAIN call.args.secrets \subseteq DOMAIN call.out.secrets
                  /\ ids \subseteq DOMAIN call.out.secrets
                  /\ call.args.secret_id = None => call.out.secret_id \in ids
                  /\ call.args.secret_id # None =>
                        call.out.secret_id = call.args.secret_id
            /\ call.args.file = NoFile =>
                  /\ call.out.raised = "IOError"
                  /\ call.out.secrets = call.args.secrets
                  /\ call.out.secret_id = call.args.secret_id

\* C20: doc_passphrase(doc_id) or doc_mac_key(doc_id) asked of an instance
\* without a master secret (no active secret id, or one that is not in the
\* map) fails with NoSymmetricSecret.
C20_NoSymmetricSecret ==
    (/\ call.op \in {"doc_passphrase", "doc_mac_key"}
     /\ call.done
     /\ \/ call.args.secret_id = None
        \/ call.args.secret_id \notin DOMAIN call.args.secrets) =>
        call.out.raised = "NoSymmetricSecret"

\* What doc_passphrase and doc_mac_key answer for every document id on an
\* instance holding a map, an active id and a passphrase.
DerivedKeys(map, sid, p) ==
    [id \in DocumentIds |->
        [passphrase |-> DocPassphrase(map, sid, p, id),
         mac_key |-> DocMacKey(map, sid, p, id)]]

\* The instance exists: bootstrap has reached READY (a public operation may
\* be under way).
Bootstrapped(d) == pc[d] \in {"ready", "api_import_store"}

\* C21: once READY, per-document derivation cannot fail and is stable: for
\* every doc_id, doc_passphrase and doc_mac_key succeed, and no public
\* operation (import_recovery_document with any document, assigning the
\* token, sync, need_sync) changes the values they return.
C21_DerivationStable ==
    [][\A d \in Devices :
         Bootstrapped(d) =>
            /\ \A id \in DocumentIds :
                  LET keys == DerivedKeys(secrets[d], secret_id[d],
                                          passphrase[d])[id]
                  IN  /\ keys.passphrase.raised = ""
                      /\ keys.mac_key.raised = ""
            /\ Bootstrapped(d)' =>
                  DerivedKeys(secrets'[d], secret_id'[d], passphrase'[d]) =
                      DerivedKeys(secrets[d], secret_id[d], passphrase[d])]_vars

C21_Witness ==
    \E d \in Devices :
        /\ pc[d] = "ready"
        /\ doc[d].found
        /\ doc[d].doc_id = None
        /\ doc[d].uuid \in DocUuids
        /\ secret_id[d] \in DOMAIN doc[d].storage_secrets
        /\ doc[d].storage_secrets[secret_id[d]] # secrets[d][secret_id[d]]
        /\ SyncSignals(d) # {}
        /\ DerivedKeys(secrets[d], secret_id[d], passphrase[d])["doc-1"]
              .passphrase.raised = ""

\* C22: a missing server url is fatal at construction: __init__ with
\* server_url = None fails in _init_config, before _bootstrap starts: no
\* directory is made, the secrets file and the shared db are left alone, no
\* signal of a shared-db call is emitted, no local database is opened; and no
\* instance ever runs a stage of _bootstrap without a server url.
C22_MissingUrlFatal ==
    [][\A d \in Devices :
         /\ (pc[d] # ConfigError /\ pc'[d] = ConfigError) =>
                /\ pc[d] = "none"
                /\ dirs' = dirs
                /\ file' = file
                /\ shared' = shared
                /\ signals'[d] = << >>
                /\ ~db'[d].open
                /\ run'[d] = NoRun
         /\ pc[d] \notin {"none"} \cup Errors => server_url[d] # NoUrl]_vars

C22_Witness ==
    \E d \in Devices :
        /\ pc[d] = ConfigError
        /\ ~dirs[d]
        /\ file[d] = NoFile
        /\ ~db[d].open

\* C23: in every bootstrap run the push of stage 2 writes to the document id
\* stage 1 fetched from in that run, sha256_hex("uuid-" + uuid), whatever
\* recovery document the fetch returned (one carrying a uuid field
\* included), and the document the push has written carries no uuid field.
C23_PushToFetchedId ==
    \A d \in Devices :
        (/\ pc[d] = "stage3"
         /\ run[d].puts > 0
         /\ run[d].fetched_from # None) =>
            /\ doc[d].doc_id = run[d].fetched_from
            /\ shared[doc[d].doc_id] = doc[d]
            /\ doc[d].uuid = NoUuid

\* The bytes of a slice of a storage secret, by their offsets.
Offsets(slice) == slice[3]..(slice[4] - 1)

\* The slices of the storage secret a bootstrapped instance uses: the keys
\* of the two HMACs of a document, password and salt of the local database
\* key.
UsedSlices(d) ==
    LET keys == DerivedKeys(secrets[d], secret_id[d], passphrase[d])["doc-1"]
    IN  [mac_key |-> keys.mac_key.value[2],
         doc_passphrase |-> keys.passphrase.value[2],
         db_salt |-> db[d].key[2][3],
         db_password |-> db[d].key[2][2]]

\* C24: the fixed offsets partition the 1024-byte master secret: the slices
\* [0, 64) of doc_mac_key, [64, 512) of doc_passphrase, [512, 576) (salt) and
\* [576, 1024) (password) of _init_db are slices of the one unwrapped
\* secret, pairwise disjoint, and together they are [0, 1024).
C24_SecretPartition ==
    \A d \in Devices :
        pc[d] = "ready" =>
            LET used == UsedSlices(d)
            IN  /\ \A n \in DOMAIN used : used[n][2] = Unwrapped(d).value
                /\ Offsets(used.mac_key) = 0..63
                /\ Offsets(used.doc_passphrase) = 64..511
                /\ Offsets(used.db_salt) = 512..575
                /\ Offsets(used.db_password) = 576..1023
                /\ \A m, n \in DOMAIN used :
                      m # n => Offsets(used[m]) \cap Offsets(used[n]) = {}
                /\ UNION {Offsets(used[n]) : n \in DOMAIN used} =
                      0..(GENERATED_SECRET_LENGTH - 1)

C24_Witness ==
    \E d \in Devices :
        /\ pc[d] = "ready"
        /\ db[d].open
        /\ new_id[d] # None
        /\ Offsets(UsedSlices(d).db_password) # {}
        /\ Offsets(UsedSlices(d).doc_passphrase) # {}

\* A run has gone through a stage; every occurrence of stage b in a run
\* comes after an occurrence of stage a.
Did(s, a) == \E i \in DOMAIN s : s[i] = a

After(s, a, b) ==
    \A j \in DOMAIN s : s[j] = b => \E i \in 1..(j - 1) : s[i] = a

\* C25: bootstrap runs its stages in the order of the state machine: the
\* import of a recovery document only after the local-secret check said no
\* and the fetch returned a document; the generation only after the check
\* said no and the fetch returned nothing; never both in one run; the push
\* after a usable local secret, an import or a generation; the opening of
\* the local database only after the push stage has returned.
C25_BootstrapOrder ==
    \A d \in Devices :
        LET s == run[d].stages
        IN  /\ \A i, j \in DOMAIN s : s[i] = s[j] => i = j
            /\ After(s, "has_secret", "fetch")
            /\ Did(s, "fetch") => run[d].local = "unusable"
            /\ After(s, "fetch", "import")
            /\ Did(s, "import") => run[d].fetched = "document"
            /\ After(s, "fetch", "generate")
            /\ Did(s, "generate") => run[d].fetched = "nothing"
            /\ ~(Did(s, "import") /\ Did(s, "generate"))
            /\ After(s, "has_secret", "push")
            /\ \A j \in DOMAIN s :
                  s[j] = "push" =>
                     \/ run[d].local = "usable"
                     \/ \E i \in 1..(j - 1) : s[i] \in {"import", "generate"}
            /\ After(s, "push", "pushed")
            /\ After(s, "pushed", "open")
            /\ new_id[d] # None => Did(s, "generate")
            /\ run[d].puts > 0 => Did(s, "pushed")
            /\ db[d].open => Did(s, "open")

C25_Witness ==
    \E d \in Devices :
        /\ pc[d] = "ready"
        /\ db[d].open
        /\ run[d].stages =
              <<"has_secret", "fetch", "import", "push", "pushed", "open">>

\* import_recovery_document returns or raises: the step that ends the call
\* (the end of the process in the middle of it is not such a step).
ImportEnds(d) ==
    /\ pc[d] \in {"import_store", "api_import_store"}
    /\ pc'[d] \notin {pc[d], "none"}

\* The uuid after an import of the document held in doc.
AdoptedUuid(d) == IF doc[d].uuid # NoUuid THEN doc[d].uuid ELSE uuid[d]

\* C26 as stated: import_recovery_document(data) changes the active secret
\* id only when it is unset: a set id is unchanged; an unset id becomes the
\* first id of data's storage_secrets, a key of the merged map; the uuid
\* changes only if data carries a uuid, and then becomes that value.
C26_ImportSetsUnsetId ==
    [][\A d \in Devices :
         ImportEnds(d) =>
            /\ secret_id[d] # None => secret_id'[d] = secret_id[d]
            /\ secret_id[d] = None =>
                  /\ secret_id'[d] \in DOMAIN doc[d].storage_secrets
                  /\ secret_id'[d] \in DOMAIN secrets'[d]
            /\ uuid'[d] = AdoptedUuid(d)]_vars

\* C26 amended: as above when the active id is set or data's
\* storage_secrets is not empty; with an unset id and an empty
\* storage_secrets the call raises IndexError and no id is set.
C26_ImportSetsUnsetIdOrRaises ==
    [][\A d \in Devices :
         ImportEnds(d) =>
            IF secret_id[d] = None /\ DOMAIN doc[d].storage_secrets = {}
            THEN /\ pc'[d] = ImportError
                 /\ secret_id'[d] = None
            ELSE /\ secret_id[d] # None => secret_id'[d] = secret_id[d]
                 /\ secret_id[d] = None =>
                       /\ secret_id'[d] \in DOMAIN doc[d].storage_secrets
                       /\ secret_id'[d] \in DOMAIN secrets'[d]
                 /\ uuid'[d] = AdoptedUuid(d)
                 /\ pc'[d] \in {"stage2", "ready"}]_vars

C26_Witness ==
    \E d \in Devices :
        /\ pc[d] = "ready"
        /\ doc[d].found
        /\ doc[d].doc_id = None
        /\ doc[d].uuid \in DocUuids
        /\ uuid[d] = doc[d].uuid
        /\ creds[d] # uuid[d]
        /\ DOMAIN doc[d].storage_secrets # {}
        /\ secret_id[d] \notin DOMAIN doc[d].storage_secrets
        /\ run[d].stages =
              <<"has_secret", "fetch", "import", "push", "pushed", "open">>

\* The process is at a point where it may call a remote collaborator with
\* self._creds: the shared db of stages 1 and 2, the targets of sync and
\* need_sync on the bootstrapped instance.
MayCallRemote(d) == pc[d] \in {"fetch", "stage2", "put", "ready"}

\* C27: after any sequence of operations (construction, bootstrap with the
\* import of any recovery document, later imports, token assignments) the
\* uuid inside the credentials handed to the remote collaborators is the
\* current user uuid of the instance.
C27_CredsCarryCurrentUuid ==
    \A d \in Devices : MayCallRemote(d) => creds[d] = uuid[d]

\* How often a signal occurs among the signals emitted.
Count(s, sig) == Cardinality({i \in DOMAIN s : s[i] = sig})

\* C28: _gen_secret emits SOLEDAD_CREATING_KEYS before the new secret is put
\* into the map and SOLEDAD_DONE_CREATING_KEYS only once the wrapped secret
\* is in the map and the secrets file is written; when the write does not
\* complete, SOLEDAD_DONE_CREATING_KEYS is not emitted.
C28_CreatingKeysSignals ==
    [][\A d \in Devices :
         /\ Count(signals'[d], SOLEDAD_CREATING_KEYS) >
                Count(signals[d], SOLEDAD_CREATING_KEYS) =>
                /\ pc[d] = "gen"
                /\ new_id'[d] = None
                /\ secrets'[d] = secrets[d]
         /\ (pc[d] = "gen_secret" /\ pc'[d] = "gen_store") =>
                /\ Count(signals[d], SOLEDAD_CREATING_KEYS) = 1
                /\ Count(signals'[d], SOLEDAD_DONE_CREATING_KEYS) = 0
                /\ new_id[d] = None
                /\ new_id'[d] \in DOMAIN secrets'[d]
         /\ Count(signals'[d], SOLEDAD_DONE_CREATING_KEYS) >
                Count(signals[d], SOLEDAD_DONE_CREATING_KEYS) =>
                /\ pc[d] = "gen_store"
                /\ new_id[d] \in DOMAIN secrets[d]
                /\ file'[d].state = "written"
                /\ new_id[d] \in {p[1] : p \in file'[d].data}
                /\ signals'[d] =
                      Append(signals[d], SOLEDAD_DONE_CREATING_KEYS)
                /\ signals[d][Len(signals[d])] = SOLEDAD_CREATING_KEYS
         /\ (pc[d] = "gen_store" /\ pc'[d] = "stage2") =>
                Count(signals'[d], SOLEDAD_DONE_CREATING_KEYS) = 1
         /\ (pc[d] = "gen_store" /\ file'[d].state # "written") =>
                Count(signals'[d], SOLEDAD_DONE_CREATING_KEYS) = 0]_vars

C28_Witness ==
    \E d \in Devices :
        /\ pc[d] = "stage2"
        /\ new_id[d] \in FileIds(d)
        /\ Len(signals[d]) >= 4
        /\ signals[d][Len(signals[d]) - 1] = SOLEDAD_CREATING_KEYS
        /\ signals[d][Len(signals[d])] = SOLEDAD_DONE_CREATING_KEYS

\* Every occurrence of a signal among the signals emitted is followed by an
\* occurrence of another signal.
FollowedBy(s, sig, done) ==
    \A i \in DOMAIN s :
        s[i] = sig => \E j \in (i + 1)..Len(s) : s[j] = done

\* C29: when a bootstrap run has completed and the local database is open,
\* every SOLEDAD_DOWNLOADING_KEYS the run has emitted was followed by a
\* SOLEDAD_DONE_DOWNLOADING_KEYS and every SOLEDAD_UPLOADING_KEYS by a
\* SOLEDAD_DONE_UPLOADING_KEYS.
C29_KeySignalsPaired ==
    \A d \in Devices :
        (pc[d] = "ready" /\ db[d].open) =>
            /\ FollowedBy(signals[d], SOLEDAD_DOWNLOADING_KEYS,
                          SOLEDAD_DONE_DOWNLOADING_KEYS)
            /\ FollowedBy(signals[d], SOLEDAD_UPLOADING_KEYS,
                          SOLEDAD_DONE_UPLOADING_KEYS)

\* C30: need_sync(url) returns true iff the generation of the local replica
\* differs from the fifth element of the target's get_sync_info (the last
\* generation of the source the target knows of); it emits
\* SOLEDAD_NEW_DATA_TO_SYNC exactly when it returns true; it changes neither
\* the secrets map nor the active secret id.
C30_NeedSync ==
    [][(call.op = "need_sync" /\ ~call.done /\ call'.done) =>
          /\ call'.out.value = (call.args.generation # call.args.info[5])
          /\ call'.out.signals =
                IF call'.out.value THEN <<SOLEDAD_NEW_DATA_TO_SYNC>>
                                   ELSE << >>
          /\ secrets' = secrets
          /\ secret_id' = secret_id]_vars

C30_Witness ==
    /\ call.op = "need_sync"
    /\ call.done
    /\ call.out.value
    /\ call.out.signals = <<SOLEDAD_NEW_DATA_TO_SYNC>>
    /\ call.args.generation = call.args.info[2]
    /\ call.args.generation = call.args.info[4]
    /\ call.args.generation # call.args.info[5]

\* C31: encrypt_sym and decrypt_sym called with a method tag other than
\* "aes-256-ctr" raise UnknownEncryptionMethod whatever the key length; with
\* "aes-256-ctr" and a key whose length is not 32 they fail on the key size;
\* decrypt_sym with a 32-byte key and no iv fails on the missing iv, and with
\* a wrong key size and no iv it is the key size it fails on.
C31_SymErrorOutcomes ==
    /\ (call.op = "encrypt_sym" /\ call.done) =>
          /\ call.args.method # AES_256_CTR =>
                 call.out.enc = Raise(UnknownEncryptionMethod)
          /\ (call.args.method = AES_256_CTR /\ call.args.key.len # 32) =>
                 call.out.enc = Raise(WrongKeySize)
    /\ (call.op = "decrypt_sym" /\ call.done) =>
          /\ call.args.method # AES_256_CTR =>
                 call.out = Raise(UnknownEncryptionMethod)
          /\ (call.args.method = AES_256_CTR /\ call.args.key.len # 32) =>
                 call.out = Raise(WrongKeySize)
          /\ (/\ call.args.method = AES_256_CTR
              /\ call.args.key.len = 32
              /\ "iv" \notin DOMAIN call.args.kwargs) =>
                 call.out = Raise(MissingIV)

C31_Witness ==
    /\ call.op = "decrypt_sym"
    /\ call.done
    /\ call.args.method = AES_256_CTR
    /\ call.args.key.len # 32
    /\ "iv" \notin DOMAIN call.args.kwargs
    /\ call.out = Raise(WrongKeySize)

\* C32: crash recovery: a run of _bootstrap on a disk where an earlier run
\* ended in the middle of writing the secrets file, the process holding a
\* shared-db handle, does not fail on the file that run left: its test of
\* stage 1 is answered and it goes on, to stage 2 or to the fetch of stage 1,
\* towards READY.
C32_CrashRecovery ==
    [][\A d \in Devices :
         (/\ pc[d] = "stage1"
          /\ file[d].state = "truncated"
          /\ HasSharedDb(d)) =>
             /\ pc'[d] \notin Errors
             /\ pc'[d] # "none" => pc'[d] \in {"stage1", "stage2", "fetch"}]_vars

\* C33: _has_secret returns a boolean and never raises, whatever the secrets
\* file holds: on an instance that has no map in memory yet, an absent file,
\* a file that is not valid JSON and a file whose storage_secrets map is
\* empty are all answered with false.
C33_HasSecretNeverRaises ==
    (call.op = "_has_secret" /\ call.done) =>
        /\ call.out.result \in {"true", "false"}
        /\ (/\ call.args.secrets = EmptyMap
            /\ \/ call.args.file.state \in {"absent", "truncated"}
               \/ call.args.file.data = {}) =>
                 call.out.result = "false"

\* The positions of a process at which _load_secrets has returned with the
\* content of the file, or _gen_secret or import_recovery_document has
\* returned, and none of the three is under way.
SecretsAtRest(d) ==
    /\ pc[d] \in {"fetch", "import", "gen", "stage2", "put", "stage3",
                  "ready"}
    /\ file[d].state # "absent"

\* C34: memory and disk agree: once _load_secrets, _gen_secret or
\* import_recovery_document has returned, and in every later state in which
\* none of them is under way, the storage_secrets map parsed from the secrets
\* file is the map in memory.
C34_MemoryDiskAgreement ==
    \A d \in Devices :
        SecretsAtRest(d) =>
            /\ file[d].state = "written"
            /\ JsonLoads(file[d].data) = secrets[d]

C34_Witness ==
    \E d \in Devices :
        /\ pc[d] = "ready"
        /\ db[d].open
        /\ file[d].state = "written"
        /\ Cardinality(DOMAIN secrets[d]) >= 2
        /\ JsonLoads(file[d].data) = secrets[d]

=============================================================================
